---- MODULE Spec2Model ----
(***************************************************************************)
(* Scalar-to-ndarray assignment: numpy/core/src/multiarray/                *)
(* array_assign_scalar.c.  One call of PyArray_AssignRawScalar is modelled *)
(* as a state machine over byte-addressed memory; the two broadcast        *)
(* engines raw_array_assign_scalar and raw_array_wheremasked_assign_scalar *)
(* run as its sub-steps.                                                   *)
(***************************************************************************)
EXTENDS Integers, Sequences, FiniteSets, TLC

\* ------------------------------------------------------------------ bounds

\* Largest extent of one destination dimension.
MaxExtent == 2

\* ------------------------------------------------------- program constants

\* npy_longlong scalarbuffer[4]
ScalarBufferLen == 4
\* sizeof(npy_longlong)
SizeofLongLong == 8
\* sizeof(scalarbuffer)
SizeofScalarBuffer == ScalarBufferLen * SizeofLongLong

\* NPY_BEGIN_THREADS_THRESHOLDED releases the lock above this many items.
\* (NumPy's header uses 500; the model scales it to the modelled extents.)
ThreadsThreshold == 2

\* A byte of memory that was never written.
Uninit == -1

\* The value of ret while the call has not returned: no value the call
\* returns.
NotReturned == 1

\* ------------------------------------------------------------ descriptors

\* PyArray_Descr: elsize, alignment, and whether the items hold references.
Descr ==
  [ int8   |-> [elsize |-> 1,  alignment |-> 1, refchk |-> FALSE, kind |-> "i"],
    int16  |-> [elsize |-> 2,  alignment |-> 2, refchk |-> FALSE, kind |-> "i"],
    object |-> [elsize |-> 8,  alignment |-> 8, refchk |-> TRUE,  kind |-> "O"],
    S1     |-> [elsize |-> 1,  alignment |-> 1, refchk |-> FALSE, kind |-> "S"],
    S32    |-> [elsize |-> 32, alignment |-> 1, refchk |-> FALSE, kind |-> "S"],
    S33    |-> [elsize |-> 33, alignment |-> 1, refchk |-> FALSE, kind |-> "S"],
    bool   |-> [elsize |-> 1,  alignment |-> 1, refchk |-> FALSE, kind |-> "b"],
    longdouble |-> [elsize |-> 16, alignment |-> 16, refchk |-> FALSE, kind |-> "f"] ]

elsize(t) == Descr[t].elsize
alignment(t) == Descr[t].alignment

\* PyDataType_REFCHK
PyDataType_REFCHK(t) == Descr[t].refchk

\* PyArray_EquivTypes
PyArray_EquivTypes(t1, t2) == t1 = t2

\* ------------------------------------------------------------------ bytes

RECURSIVE Pow256(_)
Pow256(k) == IF k = 0 THEN 1 ELSE 256 * Pow256(k - 1)

\* Little-endian bytes of the k-byte two's complement of n.
RECURSIVE LE(_, _)
LE(n, k) == IF k = 0 THEN <<>> ELSE <<n % 256>> \o LE(n \div 256, k - 1)

RECURSIVE Unsigned(_)
Unsigned(b) == IF b = <<>> THEN 0 ELSE b[1] + 256 * Unsigned(Tail(b))

\* The signed integer a little-endian byte string holds.
Signed(b) ==
  LET u == Unsigned(b)
      m == Pow256(Len(b))
  IN  IF 2 * u >= m THEN u - m ELSE u

\* Address of the boxed Python object holding integer v.
BoxAddr(v) == 4096 + 32 * (v % 256)

\* A byte string cut or zero-padded to k bytes (string dtypes).
Resize(b, k) == [i \in 1..k |-> IF i <= Len(b) THEN b[i] ELSE 0]

\* The conversion of one item from type s to type d, as the dtype transfer
\* functions do it.
CastItem(s, d, b) ==
  CASE Descr[s].kind = "i" /\ Descr[d].kind = "i" -> LE(Signed(b), elsize(d))
    [] Descr[s].kind = "i" /\ Descr[d].kind = "O" -> LE(BoxAddr(Signed(b)), elsize(d))
    [] Descr[s].kind = "O" /\ Descr[d].kind = "O" -> b
    [] Descr[s].kind = "S" /\ Descr[d].kind = "S" -> Resize(b, elsize(d))
    [] OTHER -> Resize(b, elsize(d))

\* ------------------------------------------------------------------ state

VARIABLES
  pc,                 \* where the call stands
  dst,                \* the destination array object
  wheremask,          \* the mask array object, or the NULL one
  casting,            \* the casting rule asked for
  src_dtype,          \* the parameter src_dtype (replaced after staging)
  src_data,           \* the parameter src_data (replaced after staging)
  allocated_src_data, \* the local flag of PyArray_AssignRawScalar
  mem,                \* the bytes of every region
  heap,               \* "none", "live" or "freed": the staging allocation
  eng,                \* the locals of the running broadcast engine
  gil,                \* TRUE while the coarse lock is held
  err,                \* "none" or the kind of the pending error
  ret,                \* the value returned, 0 or -1; NotReturned before
  tmp_src_data,       \* the local pointer to the staging buffer
  freed,              \* the pointers passed to PyArray_free, in order
  log,                \* the external steps taken, in order
  in                  \* the call's arguments and memory at entry

vars == <<pc, dst, wheremask, casting, src_dtype, src_data,
          allocated_src_data, mem, heap, eng, gil, err, ret,
          tmp_src_data, freed, log, in>>

\* --------------------------------------------------------------- pointers

\* A pointer is a region and a byte offset in it.  Regions start at these
\* addresses; the stack buffer is an npy_longlong array.
RegionBase ==
  [ caller |-> 1024, stack |-> 2048, heap |-> 3072, dst |-> 512, mask |-> 768 ]

Ptr(r, o) == [reg |-> r, off |-> o]

\* The stack buffer lies where the build put it: in.scalarbuffer.
Addr(p) == (IF p.reg = "stack" THEN in.scalarbuffer ELSE RegionBase[p.reg]) + p.off

\* npy_is_aligned(p, alignment)
npy_is_aligned(p, a) == Addr(p) % a = 0

\* ------------------------------------------------- iteration normalizer

Abs(x) == IF x < 0 THEN -x ELSE x

RECURSIVE Product(_)
Product(s) == IF s = <<>> THEN 1 ELSE s[1] * Product(Tail(s))

\* PyArray_CreateSortedStridePerm read back to front: the axes by ascending
\* absolute stride, the later axis first among equal strides.  Axis 1 of the
\* result is the innermost one (shape_it[0]).
SortedStridePerm(ndim, strides) ==
  CHOOSE p \in [1..ndim -> 1..ndim] :
    /\ \A i, j \in 1..ndim : i # j => p[i] # p[j]
    /\ \A i, j \in 1..ndim : i < j =>
         \/ Abs(strides[p[i]]) < Abs(strides[p[j]])
         \/ Abs(strides[p[i]]) = Abs(strides[p[j]]) /\ p[i] > p[j]

\* "Reverse any negative strides" of operand A from axis i on, moving both
\* base pointers; a zero extent ends the plan at once with an empty run.
RECURSIVE ReverseNegative(_, _)
ReverseNegative(i, it) ==
  IF i > it.ndim THEN it
  ELSE
    LET neg == it.stridesA[i] < 0
        it1 == IF neg
               THEN [it EXCEPT
                       !.dataA = @ + it.stridesA[i] * (it.shape[i] - 1),
                       !.dataB = @ + it.stridesB[i] * (it.shape[i] - 1),
                       !.stridesA[i] = -it.stridesA[i],
                       !.stridesB[i] = -it.stridesB[i]]
               ELSE it
    IN  IF it.shape[i] = 0
        THEN [ndim |-> 1, shape |-> <<0>>, dataA |-> it1.dataA,
              dataB |-> it1.dataB, stridesA |-> <<0>>, stridesB |-> <<0>>,
              empty |-> TRUE]
        ELSE ReverseNegative(i + 1, it1)

\* "Coalesce any dimensions where possible": i is the axis being built, j the
\* axis being read.
RECURSIVE Coalesce(_, _, _)
Coalesce(i, j, it) ==
  IF j > it.ndim
  THEN [it EXCEPT !.ndim = i,
                  !.shape = [k \in 1..i |-> it.shape[k]],
                  !.stridesA = [k \in 1..i |-> it.stridesA[k]],
                  !.stridesB = [k \in 1..i |-> it.stridesB[k]]]
  ELSE
    LET move(k) == [it EXCEPT !.shape[k] = it.shape[j],
                              !.stridesA[k] = it.stridesA[j],
                              !.stridesB[k] = it.stridesB[j]]
    IN  CASE it.shape[i] = 1 -> Coalesce(i, j + 1, move(i))
          [] it.shape[j] = 1 -> Coalesce(i, j + 1, it)
          [] /\ it.stridesA[i] * it.shape[i] = it.stridesA[j]
             /\ it.stridesB[i] * it.shape[i] = it.stridesB[j]
               -> Coalesce(i, j + 1,
                           [it EXCEPT !.shape[i] = it.shape[i] * it.shape[j]])
          [] OTHER -> Coalesce(i + 1, j + 1, move(i + 1))

\* PyArray_PrepareTwoRawArrayIter: the iteration plan for operand A (the
\* destination) and operand B (the mask), sorted by A's strides.
PyArray_PrepareTwoRawArrayIter(ndim, shape, dataA, stridesA, dataB, stridesB) ==
  IF ndim = 0
  THEN [ndim |-> 1, shape |-> <<1>>, dataA |-> dataA, dataB |-> dataB,
        stridesA |-> <<0>>, stridesB |-> <<0>>]
  ELSE IF ndim = 1
  THEN IF stridesA[1] >= 0
       THEN [ndim |-> 1, shape |-> shape, dataA |-> dataA, dataB |-> dataB,
             stridesA |-> stridesA, stridesB |-> stridesB]
       ELSE [ndim |-> 1, shape |-> shape,
             dataA |-> dataA + stridesA[1] * (shape[1] - 1),
             dataB |-> dataB + stridesB[1] * (shape[1] - 1),
             stridesA |-> <<-stridesA[1]>>, stridesB |-> <<-stridesB[1]>>]
  ELSE
    LET p == SortedStridePerm(ndim, stridesA)
        sorted == [ndim |-> ndim,
                   shape |-> [i \in 1..ndim |-> shape[p[i]]],
                   dataA |-> dataA, dataB |-> dataB,
                   stridesA |-> [i \in 1..ndim |-> stridesA[p[i]]],
                   stridesB |-> [i \in 1..ndim |-> stridesB[p[i]]],
                   empty |-> FALSE]
        rev == ReverseNegative(1, sorted)
        co == IF rev.empty THEN rev ELSE Coalesce(1, 2, rev)
    IN  [ndim |-> co.ndim, shape |-> co.shape, dataA |-> co.dataA,
         dataB |-> co.dataB, stridesA |-> co.stridesA, stridesB |-> co.stridesB]

\* PyArray_PrepareOneRawArrayIter: the same plan for the destination alone.
PyArray_PrepareOneRawArrayIter(ndim, shape, data, strides) ==
  LET it == PyArray_PrepareTwoRawArrayIter(ndim, shape, data, strides,
                                           data, strides)
  IN  [ndim |-> it.ndim, shape |-> it.shape, dataA |-> it.dataA,
       dataB |-> 0, stridesA |-> it.stridesA,
       stridesB |-> [i \in 1..it.ndim |-> 0]]

\* raw_array_is_aligned: the base address and every stride are multiples of
\* the alignment.
raw_array_is_aligned(ndim, data, strides, a) ==
  IF a > 1
  THEN Addr(data) % a = 0 /\ \A i \in 1..ndim : strides[i] % a = 0
  ELSE TRUE

\* broadcast_strides: the mask's strides broadcast to the destination's
\* shape, or no strides when the shapes are incompatible.
broadcast_strides(ndim, shape, strides_ndim, strides_shape, strides) ==
  LET start == ndim - strides_ndim
  IN  IF strides_ndim > ndim THEN [ok |-> FALSE, strides |-> <<>>]
      ELSE IF \E i \in 1..strides_ndim :
                strides_shape[i] # 1 /\ strides_shape[i] # shape[start + i]
      THEN [ok |-> FALSE, strides |-> <<>>]
      ELSE [ok |-> TRUE,
            strides |-> [i \in 1..ndim |->
                           IF i <= start THEN 0
                           ELSE IF strides_shape[i - start] = 1 THEN 0
                           ELSE strides[i - start]]]

Max(a, b) == IF a > b THEN a ELSE b

RECURSIVE SumTo(_, _)
SumTo(f, n) == IF n = 0 THEN 0 ELSE f[n] + SumTo(f, n - 1)

\* ----------------------------------------------------------------- inputs

Ndims == 0 .. 2

\* The byte a destination holds at offset a before the call.
Old(a) == 100 + (a % 50)

\* Strides of a C-contiguous array.
ContigStrides(shape, es) ==
  [i \in 1..Len(shape) |-> es * Product(SubSeq(shape, i + 1, Len(shape)))]

StrideSet(es) == {es * k : k \in -MaxExtent .. MaxExtent} \cup {1, es + 1}

\* Any shape and any strides, up to two dimensions.
RichGeoms(es) ==
  UNION {[ndim : {n}, shape : [1..n -> 0..MaxExtent],
          strides : [1..n -> StrideSet(es)]] : n \in Ndims}

\* A few contiguous layouts.
SimpleGeoms(es) ==
  {[ndim |-> Len(sh), shape |-> sh, strides |-> ContigStrides(sh, es)] :
     sh \in {<<>>, <<0>>, <<1>>, <<MaxExtent>>, <<MaxExtent, MaxExtent>>}}
  \cup {[ndim |-> 2, shape |-> <<MaxExtent, MaxExtent>>,
         strides |-> <<es * (MaxExtent + 1), es>>]}

\* The destination over geometry g: data points at the first item, and the
\* buffer holds every item the strides reach.
MakeDst(t, g, w) ==
  LET span(i) == g.strides[i] * Max(g.shape[i] - 1, 0)
      lo == SumTo([i \in 1..g.ndim |-> IF span(i) < 0 THEN -span(i) ELSE 0], g.ndim)
      hi == SumTo([i \in 1..g.ndim |-> IF span(i) > 0 THEN span(i) ELSE 0], g.ndim)
  IN  [descr |-> t, ndim |-> g.ndim, dims |-> g.shape, strides |-> g.strides,
       data |-> Ptr("dst", lo), writeable |-> w, nbytes |-> lo + hi + elsize(t)]

\* PyArray_SIZE
PyArray_SIZE(a) == Product(a.dims)

NullMask ==
  [null |-> TRUE, ndim |-> 0, dims |-> <<>>, strides |-> <<>>,
   data |-> Ptr("mask", 0), bits |-> <<>>]

\* Mask contents: all false, all true, alternating.
MaskBits(n, pat) ==
  [i \in 1..n |-> CASE pat = "false" -> 0
                    [] pat = "true" -> 1
                    [] OTHER -> i % 2]

MakeMask(sh, pat) ==
  [null |-> FALSE, ndim |-> Len(sh), dims |-> sh,
   strides |-> ContigStrides(sh, 1), data |-> Ptr("mask", 0),
   bits |-> MaskBits(Max(Product(sh), 1), pat)]

Patterns == {"false", "true", "alt"}

\* Masks of the destination's own shape, or one broadcast item.
BasicMasks(g) ==
  {NullMask} \cup {MakeMask(g.shape, pat) : pat \in Patterns}
             \cup {MakeMask([i \in 1..g.ndim |-> 1], pat) : pat \in {"false", "true"}}

\* These and masks of fewer, more, or unequal dimensions.
AllMasks(g) ==
  BasicMasks(g)
    \cup {MakeMask(SubSeq(g.shape, k, g.ndim), "alt") : k \in 2..g.ndim + 1}
    \cup {MakeMask([i \in 1..g.ndim |-> g.shape[i] + 2], "true"),
          MakeMask([i \in 1..g.ndim + 1 |-> 1], "true")}

\* The scalars: a destination type, a source type, the source item's bytes.
Scalars ==
  [dst : {"int8", "int16", "object"}, src : {"int8"}, item : {LE(5, 1), LE(-1, 1)}]
    \cup [dst : {"int8", "int16"}, src : {"int16"}, item : {LE(5, 2), LE(300, 2)}]
    \cup [dst : {"object"}, src : {"object"}, item : {LE(BoxAddr(7), 8)}]
    \cup [dst : {"S32", "S33"}, src : {"S1"}, item : {<<97>>}]
    \cup [dst : {"S33"}, src : {"S33"}, item : {[i \in 1..33 |-> 97 + (i % 3)]}]
    \cup [dst : {"longdouble"}, src : {"int8"}, item : {LE(5, 1)}]

\* A source pointer is aligned, or one byte off when its type cares.
SrcOffsets(t) == IF alignment(t) > 1 THEN {0, 1} ELSE {0}

\* The addresses the build may give scalarbuffer: any that is aligned for
\* npy_longlong.  Two are told apart only by a type of stricter alignment.
ScalarBufferAddrs(t) ==
  IF alignment(t) > SizeofLongLong
  THEN {RegionBase.stack, RegionBase.stack + SizeofLongLong}
  ELSE {RegionBase.stack + SizeofLongLong}

Castings == {"no", "safe", "unsafe"}

\* The scalars tried over every layout.
GeomScalars ==
  {[dst |-> "int16", src |-> "int8", item |-> LE(5, 1)],
   [dst |-> "int16", src |-> "int16", item |-> LE(300, 2)]}

NoEngine ==
  [variant |-> "none", ndim |-> 0, shape_it |-> <<>>, dst_strides_it |-> <<>>,
   wheremask_strides |-> <<>>, wheremask_strides_it |-> <<>>,
   dst_data |-> 0, wheremask_data |-> 0, coord |-> <<>>,
   src_dtype |-> "int8", src_data |-> Ptr("caller", 0),
   aligned |-> FALSE, needs_api |-> FALSE, save |-> FALSE, calls |-> <<>>]

\* The state at entry of a call with destination d, mask m, casting rule c,
\* the scalar sc at offset o of the caller's buffer, and scalarbuffer at
\* address sb.
Entry(sc, o, d, m, c, sb) ==
  LET m0 == [dst |-> [i \in 1..d.nbytes |-> Old(i - 1)],
             mask |-> m.bits,
             caller |-> [i \in 1..o |-> 77] \o sc.item,
             stack |-> [i \in 1..SizeofScalarBuffer |-> Uninit],
             heap |-> <<>>]
  IN  /\ pc = "validate"
      /\ dst = d
      /\ wheremask = m
      /\ casting = c
      /\ src_dtype = sc.src
      /\ src_data = Ptr("caller", o)
      /\ allocated_src_data = 0
      /\ mem = m0
      /\ heap = "none"
      /\ eng = NoEngine
      /\ gil = TRUE
      /\ err = "none"
      /\ ret = NotReturned
      /\ tmp_src_data = Ptr("stack", 0)
      /\ freed = <<>>
      /\ log = <<>>
      /\ in = [mem |-> m0, src_dtype |-> sc.src, src_data |-> Ptr("caller", o),
               scalarbuffer |-> sb]

\* The calls modelled: every scalar over the simple layouts with every
\* mask, casting rule and writeability, and two scalars over every layout.
Init ==
  \/ \E sc \in Scalars, c \in Castings, w \in BOOLEAN :
       \E o \in SrcOffsets(sc.src), g \in SimpleGeoms(elsize(sc.dst)) :
         \E m \in AllMasks(g), sb \in ScalarBufferAddrs(sc.dst) :
           Entry(sc, o, MakeDst(sc.dst, g, w), m, c, sb)
  \/ \E sc \in GeomScalars :
       \E g \in RichGeoms(elsize(sc.dst)) :
         \E m \in BasicMasks(g) :
           \E sb \in ScalarBufferAddrs(sc.dst) :
             Entry(sc, 0, MakeDst(sc.dst, g, TRUE), m, "safe", sb)

\* The n bytes at pointer p.
Read(m, p, n) == [i \in 1..n |-> m[p.reg][p.off + i]]

\* Region r of m with the bytes b stored at offset off.
Store(m, r, off, b) ==
  [m EXCEPT ![r] = [a \in DOMAIN m[r] |->
                      IF a > off /\ a <= off + Len(b) THEN b[a - off] ELSE m[r][a]]]

\* ------------------------------------------------ external collaborators

\* PyArray_CanCastTypeTo for the modelled types.
PyArray_CanCastTypeTo(s, d, c) ==
  CASE c = "unsafe" -> TRUE
    [] c = "no" -> s = d
    [] OTHER -> \/ s = d
                \/ Descr[d].kind = "O"
                \/ Descr[s].kind = "i" /\ Descr[d].kind = "f"
                \/ /\ Descr[s].kind = Descr[d].kind
                   /\ elsize(s) <= elsize(d)

\* can_cast_scalar_to: the type rule, or for an integer scalar the rule
\* applied to the smallest type that holds its value.
can_cast_scalar_to(s, item, d, c) ==
  \/ PyArray_CanCastTypeTo(s, d, c)
  \/ /\ c # "no"
     /\ Descr[s].kind = "i" /\ Descr[d].kind = "i"
     /\ Signed(item) = Signed(LE(Signed(item), elsize(d)))

\* Whether a transfer between these types runs Python code.
NeedsApi(s, d) == PyDataType_REFCHK(s) \/ PyDataType_REFCHK(d)

\* The unmasked transfer callback: n items written at data, data + stride, ...
RECURSIVE stransfer(_, _, _, _, _)
stransfer(m, data, stride, item, n) ==
  IF n <= 0 THEN m
  ELSE stransfer(Store(m, "dst", data, item), data + stride, stride, item, n - 1)

\* The masked transfer callback: the same, an item written only where the
\* mask byte is not zero.
RECURSIVE masked_stransfer(_, _, _, _, _, _, _)
masked_stransfer(m, data, stride, item, mask, mask_stride, n) ==
  IF n <= 0 THEN m
  ELSE masked_stransfer(
         IF m.mask[mask + 1] # 0 THEN Store(m, "dst", data, item) ELSE m,
         data + stride, stride, item, mask + mask_stride, mask_stride, n - 1)

\* ------------------------------------------------ PyArray_AssignRawScalar

\* Validate with the result of the writeability check ignored.
Validate_NoCheck ==
  /\ pc = "validate"
  /\ log' = Append(log, "FailUnlessWriteable")
  /\ pc' = "cast_check"
  /\ UNCHANGED <<dst, wheremask, casting, src_dtype, src_data,
                 allocated_src_data, mem, heap, eng, gil, err, ret,
                 tmp_src_data, freed, in>>

\* PyArray_FailUnlessWriteable(dst, ...)
Validate ==
  /\ pc = "validate"
  /\ log' = Append(log, "FailUnlessWriteable")
  /\ IF dst.writeable
     THEN /\ pc' = "cast_check"
          /\ UNCHANGED <<err, ret>>
     ELSE /\ pc' = "done"
          /\ err' = "ValueError"
          /\ ret' = -1
  /\ UNCHANGED <<dst, wheremask, casting, src_dtype, src_data,
                 allocated_src_data, mem, heap, eng, gil, tmp_src_data,
                 freed, in>>

\* CastCheck with the return after the TypeError left out.
CastCheck_FallsThrough ==
  /\ pc = "cast_check"
  /\ log' = Append(log, "can_cast_scalar_to")
  /\ err' = IF can_cast_scalar_to(src_dtype,
                                  Read(mem, src_data, elsize(src_dtype)),
                                  dst.descr, casting)
            THEN err ELSE "TypeError"
  /\ pc' = "stage"
  /\ UNCHANGED <<dst, wheremask, casting, src_dtype, src_data,
                 allocated_src_data, mem, heap, eng, gil, ret, tmp_src_data,
                 freed, in>>

\* "Check the casting rule"
CastCheck ==
  /\ pc = "cast_check"
  /\ log' = Append(log, "can_cast_scalar_to")
  /\ IF can_cast_scalar_to(src_dtype, Read(mem, src_data, elsize(src_dtype)),
                           dst.descr, casting)
     THEN /\ pc' = "stage"
          /\ UNCHANGED <<err, ret>>
     ELSE /\ pc' = "done"
          /\ err' = "TypeError"
          /\ ret' = -1
  /\ UNCHANGED <<dst, wheremask, casting, src_dtype, src_data,
                 allocated_src_data, mem, heap, eng, gil, tmp_src_data,
                 freed, in>>

\* NeedsStaging without the test of the types and the alignment.
NeedsStaging_NoTypeTest ==
  /\ PyArray_SIZE(dst) > 1
  /\ ~PyDataType_REFCHK(dst.descr)

\* NeedsStaging with the size compared to zero.
NeedsStaging_SizeOne ==
  /\ \/ ~PyArray_EquivTypes(dst.descr, src_dtype)
     \/ ~npy_is_aligned(src_data, alignment(src_dtype))
  /\ PyArray_SIZE(dst) > 0
  /\ ~PyDataType_REFCHK(dst.descr)

\* The condition under which a copy of the source item is made.
NeedsStaging ==
  /\ \/ ~PyArray_EquivTypes(dst.descr, src_dtype)
     \/ ~npy_is_aligned(src_data, alignment(src_dtype))
  /\ PyArray_SIZE(dst) > 1
  /\ ~PyDataType_REFCHK(dst.descr)

\* FitsScalarBuffer with a strict comparison.
FitsScalarBuffer_Strict == SizeofScalarBuffer > elsize(dst.descr)

\* Whether the static buffer holds one destination item.
FitsScalarBuffer == SizeofScalarBuffer >= elsize(dst.descr)

\* Stage with the conversion into the chosen buffer left out: the dispatch
\* follows the choice of the buffer at once.
Stage_SkipsConversion ==
  /\ pc = "stage"
  /\ IF ~NeedsStaging
     THEN /\ pc' = "assign"
          /\ UNCHANGED <<allocated_src_data, mem, heap, err, tmp_src_data, log>>
     ELSE IF FitsScalarBuffer
     THEN /\ pc' = "assign"
          /\ tmp_src_data' = Ptr("stack", 0)
          /\ UNCHANGED <<allocated_src_data, mem, heap, err, log>>
     ELSE /\ log' = Append(log, "PyArray_malloc")
          /\ \/ /\ pc' = "assign"
                /\ tmp_src_data' = Ptr("heap", 0)
                /\ heap' = "live"
                /\ mem' = [mem EXCEPT !.heap = [i \in 1..elsize(dst.descr) |-> Uninit]]
                /\ allocated_src_data' = 1
                /\ UNCHANGED err
             \/ /\ pc' = "fail"
                /\ err' = "MemoryError"
                /\ UNCHANGED <<allocated_src_data, mem, heap, tmp_src_data>>
  /\ UNCHANGED <<dst, wheremask, casting, src_dtype, src_data, eng, gil, ret,
                 freed, in>>

\* The choice of the staging buffer: none, the static one, or PyArray_malloc,
\* which may return NULL.
Stage ==
  /\ pc = "stage"
  /\ IF ~NeedsStaging
     THEN /\ pc' = "assign"
          /\ UNCHANGED <<allocated_src_data, mem, heap, err, tmp_src_data, log>>
     ELSE IF FitsScalarBuffer
     THEN /\ pc' = "cast_raw"
          /\ tmp_src_data' = Ptr("stack", 0)
          /\ UNCHANGED <<allocated_src_data, mem, heap, err, log>>
     ELSE /\ log' = Append(log, "PyArray_malloc")
          /\ \/ /\ pc' = "cast_raw"
                /\ tmp_src_data' = Ptr("heap", 0)
                /\ heap' = "live"
                /\ mem' = [mem EXCEPT !.heap = [i \in 1..elsize(dst.descr) |-> Uninit]]
                /\ allocated_src_data' = 1
                /\ UNCHANGED err
             \/ /\ pc' = "fail"
                /\ err' = "MemoryError"
                /\ UNCHANGED <<allocated_src_data, mem, heap, tmp_src_data>>
  /\ UNCHANGED <<dst, wheremask, casting, src_dtype, src_data, eng, gil, ret,
                 freed, in>>

\* CastRaw without "src_data = tmp_src_data" before "goto fail".
CastRaw_KeepsSrcOnFailure ==
  /\ pc = "cast_raw"
  /\ log' = Append(log, "PyArray_CastRawArrays")
  /\ \/ /\ mem' = Store(mem, tmp_src_data.reg, tmp_src_data.off,
                        CastItem(src_dtype, dst.descr,
                                 Read(mem, src_data, elsize(src_dtype))))
        /\ src_data' = tmp_src_data
        /\ src_dtype' = dst.descr
        /\ pc' = "assign"
        /\ UNCHANGED err
     \/ /\ pc' = "fail"
        /\ err' = "CastError"
        /\ UNCHANGED <<mem, src_dtype, src_data>>
  /\ UNCHANGED <<dst, wheremask, casting, allocated_src_data, heap, eng, gil,
                 ret, tmp_src_data, freed, in>>

\* CastRaw with a conversion built for aligned data: it loads the item from
\* the aligned address at or below src_data.
CastRaw_AlignedLoad ==
  /\ pc = "cast_raw"
  /\ log' = Append(log, "PyArray_CastRawArrays")
  /\ src_data' = tmp_src_data
  /\ \/ /\ mem' = Store(mem, tmp_src_data.reg, tmp_src_data.off,
                        CastItem(src_dtype, dst.descr,
                                 Read(mem,
                                      Ptr(src_data.reg,
                                          src_data.off
                                            - (Addr(src_data) % alignment(src_dtype))),
                                      elsize(src_dtype))))
        /\ src_dtype' = dst.descr
        /\ pc' = "assign"
        /\ UNCHANGED err
     \/ /\ pc' = "fail"
        /\ err' = "CastError"
        /\ UNCHANGED <<mem, src_dtype>>
  /\ UNCHANGED <<dst, wheremask, casting, allocated_src_data, heap, eng, gil,
                 ret, tmp_src_data, freed, in>>

\* PyArray_CastRawArrays of the one item into the staging buffer, which may
\* fail; either way src_data becomes the staging buffer.
CastRaw ==
  /\ pc = "cast_raw"
  /\ log' = Append(log, "PyArray_CastRawArrays")
  /\ src_data' = tmp_src_data
  /\ \/ /\ mem' = Store(mem, tmp_src_data.reg, tmp_src_data.off,
                        CastItem(src_dtype, dst.descr,
                                 Read(mem, src_data, elsize(src_dtype))))
        /\ src_dtype' = dst.descr
        /\ pc' = "assign"
        /\ UNCHANGED err
     \/ /\ pc' = "fail"
        /\ err' = "CastError"
        /\ UNCHANGED <<mem, src_dtype>>
  /\ UNCHANGED <<dst, wheremask, casting, allocated_src_data, heap, eng, gil,
                 ret, tmp_src_data, freed, in>>

\* EnterEngine with the buffer's start passed for PyArray_DATA(dst).
EnterEngine_BufferStart(variant, wheremask_strides) ==
  [NoEngine EXCEPT !.variant = variant,
                   !.ndim = dst.ndim,
                   !.dst_data = 0,
                   !.wheremask_data = wheremask.data.off,
                   !.wheremask_strides = wheremask_strides,
                   !.src_dtype = src_dtype,
                   !.src_data = src_data]

\* The entry into a broadcast engine with its arguments.
EnterEngine(variant, wheremask_strides) ==
  [NoEngine EXCEPT !.variant = variant,
                   !.ndim = dst.ndim,
                   !.dst_data = dst.data.off,
                   !.wheremask_data = wheremask.data.off,
                   !.wheremask_strides = wheremask_strides,
                   !.src_dtype = src_dtype,
                   !.src_data = src_data]

\* Assign without "goto fail" after broadcast_strides failed: the masked
\* engine is entered with the strides array as it is, taken as zeroes.
Assign_IgnoresBroadcastFailure ==
  /\ pc = "assign"
  /\ IF wheremask.null
     THEN /\ eng' = EnterEngine("plain", <<>>)
          /\ UNCHANGED <<err, log>>
     ELSE LET ws == broadcast_strides(dst.ndim, dst.dims, wheremask.ndim,
                                      wheremask.dims, wheremask.strides)
          IN  /\ log' = Append(log, "broadcast_strides")
              /\ IF ~ws.ok
                 THEN /\ err' = "ValueError"
                      /\ eng' = EnterEngine("masked", [i \in 1..dst.ndim |-> 0])
                 ELSE /\ eng' = EnterEngine("masked", ws.strides)
                      /\ UNCHANGED err
  /\ pc' = "prepare"
  /\ UNCHANGED <<dst, wheremask, casting, src_dtype, src_data,
                 allocated_src_data, mem, heap, gil, ret, tmp_src_data,
                 freed, in>>

\* The dispatch: the plain engine without a mask, else broadcast_strides and
\* the masked engine.
Assign ==
  /\ pc = "assign"
  /\ IF wheremask.null
     THEN /\ eng' = EnterEngine("plain", <<>>)
          /\ pc' = "prepare"
          /\ UNCHANGED <<err, log>>
     ELSE LET ws == broadcast_strides(dst.ndim, dst.dims, wheremask.ndim,
                                      wheremask.dims, wheremask.strides)
          IN  /\ log' = Append(log, "broadcast_strides")
              /\ IF ~ws.ok
                 THEN /\ pc' = "fail"
                      /\ err' = "ValueError"
                      /\ UNCHANGED eng
                 ELSE /\ eng' = EnterEngine("masked", ws.strides)
                      /\ pc' = "prepare"
                      /\ UNCHANGED err
  /\ UNCHANGED <<dst, wheremask, casting, src_dtype, src_data,
                 allocated_src_data, mem, heap, gil, ret, tmp_src_data,
                 freed, in>>

\* ------------------------------------------------- the broadcast engines
\* raw_array_assign_scalar (variant "plain") and
\* raw_array_wheremasked_assign_scalar (variant "masked") share these steps.

\* "Check alignment"
EngineAligned ==
  /\ raw_array_is_aligned(dst.ndim, dst.data, dst.strides, alignment(dst.descr))
  /\ npy_is_aligned(eng.src_data, alignment(eng.src_dtype))

\* The plan the normalizer returns for the engine's arguments.
EnginePlan ==
  IF eng.variant = "plain"
  THEN PyArray_PrepareOneRawArrayIter(dst.ndim, dst.dims, eng.dst_data,
                                      dst.strides)
  ELSE PyArray_PrepareTwoRawArrayIter(dst.ndim, dst.dims, eng.dst_data,
                                      dst.strides, eng.wheremask_data,
                                      eng.wheremask_strides)

\* Prepare with the lock released on entry of the engine, by the size of
\* the destination, before the normalizer is called.
Prepare_ReleasesFirst ==
  /\ pc = "prepare"
  /\ IF PyArray_SIZE(dst) > ThreadsThreshold
     THEN /\ gil' = FALSE
          /\ log' = Append(Append(log, "PyEval_SaveThread"), "PrepareRawArrayIter")
     ELSE /\ log' = Append(log, "PrepareRawArrayIter")
          /\ UNCHANGED gil
  /\ \/ /\ eng' = [eng EXCEPT !.aligned = EngineAligned,
                              !.ndim = EnginePlan.ndim,
                              !.shape_it = EnginePlan.shape,
                              !.dst_data = EnginePlan.dataA,
                              !.dst_strides_it = EnginePlan.stridesA,
                              !.wheremask_data = EnginePlan.dataB,
                              !.wheremask_strides_it = EnginePlan.stridesB]
        /\ pc' = "get_transfer"
        /\ UNCHANGED err
     \/ /\ pc' = "fail"
        /\ err' = "IterError"
        /\ UNCHANGED eng
  /\ UNCHANGED <<dst, wheremask, casting, src_dtype, src_data,
                 allocated_src_data, mem, heap, ret, tmp_src_data,
                 freed, in>>

\* "Use raw iteration with no heap allocation": the normalizer fills the
\* plan, or fails and the engine returns -1.
Prepare ==
  /\ pc = "prepare"
  /\ log' = Append(log, "PrepareRawArrayIter")
  /\ \/ /\ eng' = [eng EXCEPT !.aligned = EngineAligned,
                              !.ndim = EnginePlan.ndim,
                              !.shape_it = EnginePlan.shape,
                              !.dst_data = EnginePlan.dataA,
                              !.dst_strides_it = EnginePlan.stridesA,
                              !.wheremask_data = EnginePlan.dataB,
                              !.wheremask_strides_it = EnginePlan.stridesB]
        /\ pc' = "get_transfer"
        /\ UNCHANGED err
     \/ /\ pc' = "fail"
        /\ err' = "IterError"
        /\ UNCHANGED eng
  /\ UNCHANGED <<dst, wheremask, casting, src_dtype, src_data,
                 allocated_src_data, mem, heap, gil, ret, tmp_src_data,
                 freed, in>>

\* GetTransfer without the return after the constructor failed.
GetTransfer_FallsThrough ==
  /\ pc = "get_transfer"
  /\ log' = Append(log, "GetDTypeTransferFunction")
  /\ \/ /\ eng' = [eng EXCEPT !.needs_api = NeedsApi(eng.src_dtype, dst.descr)]
        /\ UNCHANGED err
     \/ /\ err' = "TransferError"
        /\ UNCHANGED eng
  /\ pc' = "begin_threads"
  /\ UNCHANGED <<dst, wheremask, casting, src_dtype, src_data,
                 allocated_src_data, mem, heap, gil, ret, tmp_src_data,
                 freed, in>>

\* "Get the function to do the casting": the constructor sets needs_api, or
\* fails and the engine returns -1.
GetTransfer ==
  /\ pc = "get_transfer"
  /\ log' = Append(log, "GetDTypeTransferFunction")
  /\ \/ /\ eng' = [eng EXCEPT !.needs_api = NeedsApi(eng.src_dtype, dst.descr)]
        /\ pc' = "begin_threads"
        /\ UNCHANGED err
     \/ /\ pc' = "fail"
        /\ err' = "TransferError"
        /\ UNCHANGED eng
  /\ UNCHANGED <<dst, wheremask, casting, src_dtype, src_data,
                 allocated_src_data, mem, heap, gil, ret, tmp_src_data,
                 freed, in>>

\* ReleasesLock without the test of needs_api.
ReleasesLock_IgnoresNeedsApi == Product(eng.shape_it) > ThreadsThreshold

\* Whether the engine may release the lock for its loop.
ReleasesLock ==
  /\ ~eng.needs_api
  /\ Product(eng.shape_it) > ThreadsThreshold

\* NPY_BEGIN_THREADS_THRESHOLDED(nitems) under if (!needs_api), then
\* NPY_RAW_ITER_START, which zeroes coord.
BeginThreads ==
  /\ pc = "begin_threads"
  /\ IF ReleasesLock
     THEN /\ gil' = FALSE
          /\ log' = Append(log, "PyEval_SaveThread")
     ELSE UNCHANGED <<gil, log>>
  /\ eng' = [eng EXCEPT !.save = ReleasesLock,
                        !.coord = [i \in 1..eng.ndim |-> 0]]
  /\ pc' = "loop"
  /\ UNCHANGED <<dst, wheremask, casting, src_dtype, src_data,
                 allocated_src_data, mem, heap, err, ret, tmp_src_data,
                 freed, in>>

\* NPY_RAW_ITER_ONE_NEXT / NPY_RAW_ITER_TWO_NEXT from axis idim: the next
\* coordinate and base pointers, and the axis at which the for loop stopped.
RECURSIVE RawIterNext(_, _)
RawIterNext(idim, e) ==
  IF idim > e.ndim THEN [e |-> e, idim |-> idim]
  ELSE IF e.coord[idim] + 1 = e.shape_it[idim]
  THEN RawIterNext(idim + 1,
         [e EXCEPT !.coord[idim] = 0,
                   !.dst_data = @ - (e.shape_it[idim] - 1) * e.dst_strides_it[idim],
                   !.wheremask_data =
                      @ - (e.shape_it[idim] - 1) * e.wheremask_strides_it[idim]])
  ELSE [e |-> [e EXCEPT !.coord[idim] = @ + 1,
                        !.dst_data = @ + e.dst_strides_it[idim],
                        !.wheremask_data = @ + e.wheremask_strides_it[idim]],
        idim |-> idim]

\* The item the callback stores: the source item in the destination's type.
EngineItem(e, m) ==
  CastItem(e.src_dtype, dst.descr, Read(m, e.src_data, elsize(e.src_dtype)))

\* InnerRun with the count one short.
InnerRun_SkipsLast(e, m, n) ==
  IF e.variant = "plain"
  THEN stransfer(m, e.dst_data, e.dst_strides_it[1], EngineItem(e, m), n - 1)
  ELSE masked_stransfer(m, e.dst_data, e.dst_strides_it[1], EngineItem(e, m),
                        e.wheremask_data, e.wheremask_strides_it[1], n - 1)

\* InnerRun with the mask's stride passed as zero.
InnerRun_MaskStrideZero(e, m, n) ==
  IF e.variant = "plain"
  THEN stransfer(m, e.dst_data, e.dst_strides_it[1], EngineItem(e, m), n)
  ELSE masked_stransfer(m, e.dst_data, e.dst_strides_it[1], EngineItem(e, m),
                        e.wheremask_data, 0, n)

\* One call of the transfer callback on the innermost run, n items long, of
\* engine e over memory m.
InnerRun(e, m, n) ==
  IF e.variant = "plain"
  THEN stransfer(m, e.dst_data, e.dst_strides_it[1], EngineItem(e, m), n)
  ELSE masked_stransfer(m, e.dst_data, e.dst_strides_it[1], EngineItem(e, m),
                        e.wheremask_data, e.wheremask_strides_it[1], n)

\* Loop with a break out of the do-while when the callback raised.
Loop_StopsOnError ==
  /\ pc = "loop"
  /\ log' = Append(log, "stransfer")
  /\ \/ /\ mem' = InnerRun(eng, mem, eng.shape_it[1])
        /\ UNCHANGED err
     \/ /\ eng.needs_api
        /\ \E k \in 0 .. Max(eng.shape_it[1] - 1, 0) : mem' = InnerRun(eng, mem, k)
        /\ err' = "CallbackError"
  /\ LET call == [dst |-> eng.dst_data, mask |-> eng.wheremask_data,
                  count |-> eng.shape_it[1], coord |-> eng.coord]
         nxt == RawIterNext(2, [eng EXCEPT !.calls = Append(@, call)])
     IN  /\ eng' = nxt.e
         /\ pc' = IF nxt.idim <= eng.ndim /\ err' = "none"
                  THEN "loop" ELSE "end_threads"
  /\ UNCHANGED <<dst, wheremask, casting, src_dtype, src_data,
                 allocated_src_data, heap, gil, ret, tmp_src_data, freed, in>>

\* Loop without the loop condition: the body of the do-while is run once.
Loop_OnePass ==
  /\ pc = "loop"
  /\ log' = Append(log, "stransfer")
  /\ \/ /\ mem' = InnerRun(eng, mem, eng.shape_it[1])
        /\ UNCHANGED err
     \/ /\ eng.needs_api
        /\ \E k \in 0 .. Max(eng.shape_it[1] - 1, 0) : mem' = InnerRun(eng, mem, k)
        /\ err' = "CallbackError"
  /\ LET call == [dst |-> eng.dst_data, mask |-> eng.wheremask_data,
                  count |-> eng.shape_it[1], coord |-> eng.coord]
         nxt == RawIterNext(2, [eng EXCEPT !.calls = Append(@, call)])
     IN  /\ eng' = nxt.e
         /\ pc' = "end_threads"
  /\ UNCHANGED <<dst, wheremask, casting, src_dtype, src_data,
                 allocated_src_data, heap, gil, ret, tmp_src_data, freed, in>>

\* One pass of the do-while loop: "Process the innermost dimension", then
\* advance.  A callback that runs Python code may raise part way through
\* its run.
Loop ==
  /\ pc = "loop"
  /\ log' = Append(log, "stransfer")
  /\ \/ /\ mem' = InnerRun(eng, mem, eng.shape_it[1])
        /\ UNCHANGED err
     \/ /\ eng.needs_api
        /\ \E k \in 0 .. Max(eng.shape_it[1] - 1, 0) : mem' = InnerRun(eng, mem, k)
        /\ err' = "CallbackError"
  /\ LET call == [dst |-> eng.dst_data, mask |-> eng.wheremask_data,
                  count |-> eng.shape_it[1], coord |-> eng.coord]
         nxt == RawIterNext(2, [eng EXCEPT !.calls = Append(@, call)])
     IN  /\ eng' = nxt.e
         /\ pc' = IF nxt.idim <= eng.ndim THEN "loop" ELSE "end_threads"
  /\ UNCHANGED <<dst, wheremask, casting, src_dtype, src_data,
                 allocated_src_data, heap, gil, ret, tmp_src_data, freed, in>>

\* EngineResult with the test of needs_api inverted.
EngineResult_NoApiOnly == IF ~eng.needs_api /\ err # "none" THEN -1 ELSE 0

\* The engine's result: -1 when an error is pending after a loop that ran
\* Python code.
EngineResult == IF eng.needs_api /\ err # "none" THEN -1 ELSE 0

\* NPY_END_THREADS, NPY_AUXDATA_FREE and the return to the caller.
EndThreads ==
  /\ pc = "end_threads"
  /\ IF eng.save
     THEN /\ gil' = TRUE
          /\ log' = Append(log, "PyEval_RestoreThread")
     ELSE UNCHANGED <<gil, log>>
  /\ eng' = [eng EXCEPT !.save = FALSE]
  /\ pc' = IF EngineResult < 0 THEN "fail" ELSE "finish"
  /\ UNCHANGED <<dst, wheremask, casting, src_dtype, src_data,
                 allocated_src_data, mem, heap, err, ret, tmp_src_data,
                 freed, in>>

\* ------------------------------------------------------------ the two exits

\* FreeStaged without the test of allocated_src_data.
FreeStaged_Unconditional ==
  /\ freed' = Append(freed, src_data)
  /\ heap' = IF src_data.reg = "heap" /\ heap = "live"
             THEN "freed" ELSE "corrupt"
  /\ log' = Append(log, "PyArray_free")

\* if (allocated_src_data) PyArray_free(src_data)
FreeStaged ==
  IF allocated_src_data # 0
  THEN /\ freed' = Append(freed, src_data)
       /\ heap' = IF src_data.reg = "heap" /\ heap = "live"
                  THEN "freed" ELSE "corrupt"
       /\ log' = Append(log, "PyArray_free")
  ELSE UNCHANGED <<freed, heap, log>>

\* The success exit: free the staging buffer, return 0.
Finish ==
  /\ pc = "finish"
  /\ FreeStaged
  /\ ret' = 0
  /\ pc' = "done"
  /\ UNCHANGED <<dst, wheremask, casting, src_dtype, src_data,
                 allocated_src_data, mem, eng, gil, err, tmp_src_data, in>>

\* The label fail: free the staging buffer, return -1.
Fail ==
  /\ pc = "fail"
  /\ FreeStaged
  /\ ret' = -1
  /\ pc' = "done"
  /\ UNCHANGED <<dst, wheremask, casting, src_dtype, src_data,
                 allocated_src_data, mem, eng, gil, err, tmp_src_data, in>>

Next ==
  \/ Validate
  \/ CastCheck
  \/ Stage
  \/ CastRaw
  \/ Assign
  \/ Prepare
  \/ GetTransfer
  \/ BeginThreads
  \/ Loop
  \/ EndThreads
  \/ Finish
  \/ Fail

Spec == Init /\ [][Next]_vars

\* ================================================================ claims

\* The coordinates of the destination's items.
Coords ==
  {c \in [1..dst.ndim -> 0..MaxExtent] : \A i \in 1..dst.ndim : c[i] < dst.dims[i]}

\* The byte offset of item c in the destination's buffer.
ItemOff(c) == dst.data.off + SumTo([i \in 1..dst.ndim |-> c[i] * dst.strides[i]], dst.ndim)

\* Item c of the destination in memory m.
DstItem(m, c) == Read(m, Ptr("dst", ItemOff(c)), elsize(dst.descr))

\* The mask byte that broadcasting gives item c.
MaskByte(c) ==
  LET ws == broadcast_strides(dst.ndim, dst.dims, wheremask.ndim,
                              wheremask.dims, wheremask.strides).strides
  IN  in.mem.mask[wheremask.data.off
                    + SumTo([i \in 1..dst.ndim |-> c[i] * ws[i]], dst.ndim) + 1]

\* The mask can be broadcast to the destination.
MaskFits ==
  /\ ~wheremask.null
  /\ broadcast_strides(dst.ndim, dst.dims, wheremask.ndim, wheremask.dims,
                       wheremask.strides).ok

\* The caller's scalar in the destination's type.
Scalar ==
  CastItem(in.src_dtype, dst.descr,
           Read(in.mem, in.src_data, elsize(in.src_dtype)))

Succeeded == pc = "done" /\ ret = 0

\* Items c1 and c2 share some but not all of their bytes.
PartlyOverlap(c1, c2) ==
  /\ ItemOff(c1) # ItemOff(c2)
  /\ Abs(ItemOff(c1) - ItemOff(c2)) < elsize(dst.descr)

\* Items c1 and c2 share a byte.
Overlap(c1, c2) == Abs(ItemOff(c1) - ItemOff(c2)) < elsize(dst.descr)

\* C1 as stated: after a successful unmasked call every destination item,
\* whatever the shape and strides, equals the scalar in the destination's
\* type.
C1_AllItemsWritten_AnyStrides ==
  (Succeeded /\ wheremask.null) =>
     \A c \in Coords : DstItem(mem, c) = Scalar

\* C1 amended: after a successful unmasked call on a destination no two of
\* whose items partly overlap in memory, every destination item equals the
\* scalar in the destination's type.
C1_AllItemsWritten ==
  (Succeeded /\ wheremask.null
     /\ \A c1, c2 \in Coords : ~PartlyOverlap(c1, c2)) =>
     \A c \in Coords : DstItem(mem, c) = Scalar

\* A successful unmasked call over a two-dimensional destination that cannot
\* be coalesced, with reversed and zero strides allowed, has written items.
C1_Witness ==
  /\ Succeeded /\ wheremask.null
  /\ dst.ndim = 2 /\ Cardinality(Coords) = MaxExtent * MaxExtent
  /\ eng.ndim = 2
  /\ \A c1, c2 \in Coords : ~PartlyOverlap(c1, c2)
  /\ \A c \in Coords : DstItem(mem, c) = Scalar /\ DstItem(in.mem, c) # Scalar

\* No two items of the destination share a byte.
ItemsDisjoint == \A c1, c2 \in Coords : c1 # c2 => ~Overlap(c1, c2)

\* The mask is false for every item of the destination.
MaskAllFalse == MaskFits /\ \A c \in Coords : MaskByte(c) = 0

\* The mask is true for every item of the destination.
MaskAllTrue == MaskFits /\ \A c \in Coords : MaskByte(c) # 0

\* The destination's bytes are those it held at entry.
DstUnchanged == mem.dst = in.mem.dst

\* C2 as stated: after a successful masked call, whatever the strides, every
\* item whose mask byte is true holds the scalar and every item whose mask
\* byte is false holds the bytes it held before.
C2_MaskedItems_AnyStrides ==
  (Succeeded /\ MaskFits) =>
     \A c \in Coords :
        IF MaskByte(c) # 0
        THEN DstItem(mem, c) = Scalar
        ELSE DstItem(mem, c) = DstItem(in.mem, c)

\* C2 amended: after a successful masked call on a destination no two of
\* whose items share a byte, every item whose mask byte is true holds the
\* scalar and every item whose mask byte is false holds the bytes it held
\* before; and for any strides an all-false mask leaves the whole
\* destination unchanged.
C2_MaskedItems ==
  /\ (Succeeded /\ MaskFits /\ ItemsDisjoint) =>
        \A c \in Coords :
           IF MaskByte(c) # 0
           THEN DstItem(mem, c) = Scalar
           ELSE DstItem(mem, c) = DstItem(in.mem, c)
  /\ (Succeeded /\ MaskAllFalse) => DstUnchanged

\* A successful masked call over a full two-dimensional destination whose
\* mask holds both values: some items written, some kept.
C2_Witness ==
  /\ Succeeded /\ MaskFits /\ ItemsDisjoint
  /\ Cardinality(Coords) = MaxExtent * MaxExtent
  /\ eng.ndim = 2
  /\ \E c \in Coords : MaskByte(c) # 0 /\ DstItem(mem, c) = Scalar
                         /\ DstItem(in.mem, c) # Scalar
  /\ \E c \in Coords : MaskByte(c) = 0 /\ DstItem(mem, c) = DstItem(in.mem, c)

\* The plain engine's whole loop from engine state e over memory m.
RECURSIVE RunLoop(_, _)
RunLoop(e, m) ==
  LET m1 == InnerRun(e, m, e.shape_it[1])
      nxt == RawIterNext(2, e)
  IN  IF nxt.idim <= e.ndim THEN RunLoop(nxt.e, m1) ELSE m1

\* What the unmasked engine, given the scalar source this call's engine was
\* given, leaves in a destination holding the bytes of entry.
UnmaskedResult ==
  LET plan == PyArray_PrepareOneRawArrayIter(dst.ndim, dst.dims,
                                             dst.data.off, dst.strides)
      e == [eng EXCEPT !.variant = "plain",
                       !.ndim = plan.ndim,
                       !.shape_it = plan.shape,
                       !.dst_data = plan.dataA,
                       !.dst_strides_it = plan.stridesA,
                       !.coord = [i \in 1..plan.ndim |-> 0]]
  IN  RunLoop(e, [mem EXCEPT !.dst = in.mem.dst]).dst

\* C3: a call that ends with no step having failed returns 0 and, masked
\* with an all-true mask or unmasked, leaves in the destination the same
\* bytes: those the unmasked engine's loop produces from the destination
\* of entry, for any shape and strides.
C3_AllTrueMaskEqualsUnmasked ==
  (pc = "done" /\ err = "none" /\ (wheremask.null \/ MaskAllTrue)) =>
     ret = 0 /\ mem.dst = UnmaskedResult

\* A successful call with an all-true mask of the destination's shape over
\* a destination whose items overlap, where the order of the writes shows.
C3_Witness ==
  /\ Succeeded /\ MaskAllTrue
  /\ wheremask.dims = dst.dims
  /\ Cardinality(Coords) = MaxExtent * MaxExtent
  /\ \E c1, c2 \in Coords : PartlyOverlap(c1, c2)
  /\ ~DstUnchanged

\* The steps of log, as a set.
Logged == {log[i] : i \in 1..Len(log)}

\* C4: a call on a destination that is not writeable takes the writeability
\* check and nothing else: it never leaves the check but to return -1, with
\* no cast check, no staging buffer, no transfer function and no byte of any
\* buffer written.
C4_NotWriteableFailsAtOnce ==
  ~dst.writeable =>
     /\ pc \in {"validate", "done"}
     /\ Logged \subseteq {"FailUnlessWriteable"}
     /\ mem = in.mem /\ heap = "none" /\ freed = <<>> /\ eng = NoEngine
     /\ pc = "done" => ret = -1 /\ err = "ValueError"

\* The call on a destination that is not writeable has returned.
C4_Witness ==
  /\ ~dst.writeable /\ pc = "done" /\ ret = -1
  /\ NeedsStaging /\ ~FitsScalarBuffer

\* The cast-safety predicate rejects the caller's scalar.
CastRejected ==
  ~can_cast_scalar_to(in.src_dtype,
                      Read(in.mem, in.src_data, elsize(in.src_dtype)),
                      dst.descr, casting)

\* C5: when the destination is writeable and the cast-safety predicate
\* rejects the scalar, the call returns -1 with a TypeError straight from
\* the cast check: no staging, no transfer function, no callback, and the
\* destination (as every buffer) unmodified.
C5_CastRejectedLeavesDst ==
  (dst.writeable /\ CastRejected) =>
     /\ pc \in {"validate", "cast_check", "done"}
     /\ Logged \subseteq {"FailUnlessWriteable", "can_cast_scalar_to"}
     /\ mem = in.mem /\ heap = "none" /\ freed = <<>> /\ eng = NoEngine
     /\ pc = "done" => ret = -1 /\ err = "TypeError"

\* A rejected cast of a value that does not fit, to a destination of several
\* items, has returned.
C5_Witness ==
  /\ dst.writeable /\ CastRejected /\ pc = "done" /\ err = "TypeError"
  /\ casting = "safe" /\ Cardinality(Coords) > 1

\* C6: the heap staging buffer is never freed twice and no other pointer is
\* freed; when the call returns, by whichever exit, a buffer that was
\* allocated has been freed exactly once, and nothing has been freed when
\* the static buffer was used or the allocation failed.
C6_StagingFreedOnce ==
  /\ heap # "corrupt"
  /\ Len(freed) <= 1
  /\ pc = "done" =>
       IF heap = "none"
       THEN freed = <<>>
       ELSE heap = "freed" /\ freed = <<Ptr("heap", 0)>>

\* The call returned -1 after the staging conversion failed on a heap
\* buffer, which was freed.
C6_Witness ==
  /\ pc = "done" /\ ret = -1 /\ err = "CastError"
  /\ heap = "freed" /\ freed = <<Ptr("heap", 0)>>

\* C7: the call returns -1 exactly when a step failed (each failing step
\* leaves its error pending) and 0 exactly when none did.
C7_FailureIsReturned ==
  /\ pc # "done" => ret = NotReturned
  /\ pc = "done" => ret \in {0, -1} /\ (ret = -1 <=> err # "none")

\* The call returned -1 for an error a callback raised inside the loop,
\* after the loop went on to its end.
C7_Witness ==
  /\ pc = "done" /\ ret = -1 /\ err = "CallbackError"
  /\ Len(eng.calls) > 1

\* No staging buffer is in use: none was chosen or allocated, nothing was
\* converted, and the engine, once entered, reads the caller's scalar.
NoStaging ==
  /\ pc # "cast_raw"
  /\ Logged \cap {"PyArray_malloc", "PyArray_CastRawArrays"} = {}
  /\ mem.stack = in.mem.stack /\ heap = "none"
  /\ src_data = in.src_data /\ src_dtype = in.src_dtype
  /\ eng.variant # "none" =>
        eng.src_data = in.src_data /\ eng.src_dtype = in.src_dtype

\* The caller's scalar pointer is aligned for the scalar's type.
ScalarAligned == Addr(in.src_data) % alignment(in.src_dtype) = 0

\* C8 as stated: in every call whose scalar type is the destination's type
\* no staging buffer is created and the engine gets the caller's pointer.
C8_SameTypeNoStaging_AnyAlignment ==
  in.src_dtype = dst.descr => NoStaging

\* C8 amended: in every call whose scalar type is the destination's type and
\* whose scalar pointer is aligned for that type, no staging buffer is
\* created and the engine gets the caller's pointer.
C8_SameTypeNoStaging ==
  (in.src_dtype = dst.descr /\ ScalarAligned) => NoStaging

\* An engine runs on the caller's own scalar: same type, aligned, a
\* destination of several items.
C8_Witness ==
  /\ in.src_dtype = dst.descr /\ ScalarAligned
  /\ ~PyDataType_REFCHK(dst.descr) /\ Cardinality(Coords) > 1
  /\ pc = "loop" /\ eng.src_data = in.src_data

\* The staging condition, from the call's arguments.
MustStage ==
  /\ in.src_dtype # dst.descr \/ ~ScalarAligned
  /\ Cardinality(Coords) > 1
  /\ ~Descr[dst.descr].refchk

\* Staging was started: a buffer was chosen or asked for.
StagingStarted ==
  \/ pc = "cast_raw"
  \/ Logged \cap {"PyArray_malloc", "PyArray_CastRawArrays"} # {}

\* C9: once the writeability and cast checks have passed and the staging
\* decision is made, staging happened exactly when (the types differ or the
\* scalar is misaligned) and the destination has more than one item and its
\* type holds no references; an engine then reads the staged buffer in the
\* destination's type, and in every other case the caller's pointer in the
\* caller's type.
C9_StagingCondition ==
  (dst.writeable /\ ~CastRejected /\ pc \notin {"validate", "cast_check", "stage"}) =>
     /\ StagingStarted <=> MustStage
     /\ eng.variant # "none" =>
          IF MustStage
          THEN eng.src_data.reg \in {"stack", "heap"} /\ eng.src_dtype = dst.descr
          ELSE eng.src_data = in.src_data /\ eng.src_dtype = in.src_dtype

\* An engine runs on a staged copy made only because the scalar, of the
\* destination's type, was misaligned.
C9_Witness ==
  /\ pc = "loop" /\ in.src_dtype = dst.descr /\ ~ScalarAligned
  /\ eng.src_data = Ptr("stack", 0)
  /\ Read(mem, eng.src_data, elsize(dst.descr)) = Scalar

\* C10: in both engines the lock is released for the loop exactly when the
\* transfer function needs no guarded execution and the destination has
\* more items than the threshold; it is held at every other step of the
\* call, so at each return of the engine.
C10_LockReleasedIffSafe ==
  /\ pc = "loop" =>
       (~gil <=> (~eng.needs_api /\ Cardinality(Coords) > ThreadsThreshold))
  /\ pc = "end_threads" => (~gil <=> eng.save)
  /\ pc \notin {"loop", "end_threads"} => gil

\* The masked engine has returned with the lock reacquired after a loop of
\* several callbacks that ran without it.
C10_Witness ==
  /\ pc = "finish" /\ gil /\ eng.variant = "masked"
  /\ log[Len(log)] = "PyEval_RestoreThread"
  /\ Len(eng.calls) > 1

\* What the engine this call dispatches to leaves in a destination holding
\* the bytes of entry when its scalar source is an aligned copy of the
\* caller's item in the caller's type: a function of the item, the types,
\* the destination and the mask, not of the scalar pointer.
AlignedCallResult ==
  LET ws == IF wheremask.null THEN <<>>
            ELSE broadcast_strides(dst.ndim, dst.dims, wheremask.ndim,
                                   wheremask.dims, wheremask.strides).strides
      plan == IF wheremask.null
              THEN PyArray_PrepareOneRawArrayIter(dst.ndim, dst.dims,
                                                  dst.data.off, dst.strides)
              ELSE PyArray_PrepareTwoRawArrayIter(dst.ndim, dst.dims,
                                                  dst.data.off, dst.strides,
                                                  wheremask.data.off, ws)
      e == [NoEngine EXCEPT !.variant = IF wheremask.null THEN "plain" ELSE "masked",
                            !.ndim = plan.ndim,
                            !.shape_it = plan.shape,
                            !.dst_data = plan.dataA,
                            !.dst_strides_it = plan.stridesA,
                            !.wheremask_data = plan.dataB,
                            !.wheremask_strides_it = plan.stridesB,
                            !.coord = [i \in 1..plan.ndim |-> 0],
                            !.src_dtype = in.src_dtype,
                            !.src_data = Ptr("caller", 0)]
      m == [in.mem EXCEPT !.caller = Read(in.mem, in.src_data, elsize(in.src_dtype))]
  IN  RunLoop(e, m).dst

\* C11: a call in which no step fails returns 0 and leaves in the
\* destination the bytes that depend on the scalar's item and not on where
\* the scalar lies: those of the loop run on an aligned copy of the item.
\* So two such calls that differ only in the alignment of the scalar source
\* pointer end with the same destination bytes and the same return value;
\* the alignment shows only in the staging decision and the aligned flag.
C11_AlignmentKeepsResult ==
  /\ (pc = "done" /\ err = "none") => ret = 0 /\ mem.dst = AlignedCallResult
  /\ (pc \in {"get_transfer", "begin_threads", "loop", "end_threads"}
        /\ ~ScalarAligned /\ eng.src_data = in.src_data) => ~eng.aligned

\* A call with a misaligned scalar of another type than the destination's
\* returned 0 after staging, with several items changed.
C11_Witness ==
  /\ Succeeded /\ ~ScalarAligned /\ in.src_dtype # dst.descr
  /\ eng.src_data = Ptr("stack", 0)
  /\ Cardinality(Coords) > 1 /\ ~DstUnchanged

\* The steps of a call by phase: the writeability check, the cast check,
\* staging, the engine, the release of the staging buffer.
Phases ==
  << {"FailUnlessWriteable"},
     {"can_cast_scalar_to"},
     {"PyArray_malloc", "PyArray_CastRawArrays"},
     {"broadcast_strides", "PrepareRawArrayIter", "GetDTypeTransferFunction",
      "PyEval_SaveThread", "stransfer", "PyEval_RestoreThread"},
     {"PyArray_free"} >>

Phase(s) == CHOOSE k \in 1..Len(Phases) : s \in Phases[k]

\* How many times step s was taken.
Count(s) == Cardinality({i \in 1..Len(log) : log[i] = s})

\* C12: the steps of a call are taken only in the order writeability check,
\* cast check, staging, engine, release of the staging buffer, return; the
\* cast check is taken only after the writeability check passed, staging
\* only after the cast check passed, no destination byte is written before
\* a staging that the call needs has filled its buffer, and the staging
\* buffer is freed only after the engine returned, as the last step.
C12_StepOrder ==
  /\ \A i, j \in 1..Len(log) : i < j => Phase(log[i]) <= Phase(log[j])
  /\ \A s \in Phases[1] \cup Phases[2] \cup Phases[3] \cup Phases[5] : Count(s) <= 1
  /\ log # <<>> => log[1] = "FailUnlessWriteable"
  /\ "can_cast_scalar_to" \in Logged => dst.writeable
  /\ StagingStarted => "can_cast_scalar_to" \in Logged /\ ~CastRejected
  /\ eng.variant # "none" =>
       /\ "can_cast_scalar_to" \in Logged /\ ~CastRejected
       /\ MustStage => /\ "PyArray_CastRawArrays" \in Logged
                       /\ eng.src_data = tmp_src_data
                       /\ Read(mem, tmp_src_data, elsize(dst.descr)) = Scalar
  /\ ~DstUnchanged => "stransfer" \in Logged /\ eng.variant # "none"
  /\ "PyArray_free" \in Logged =>
       /\ pc = "done" /\ log[Len(log)] = "PyArray_free"
       /\ heap = "freed"
  /\ heap = "live" /\ pc \in {"prepare", "get_transfer", "begin_threads",
                              "loop", "end_threads"} => freed = <<>>
  /\ IF pc = "done" THEN ret \in {0, -1} ELSE ret = NotReturned

\* A call that took every step returned: it staged on the heap, ran a loop
\* of several callbacks that changed the destination, and freed the buffer.
C12_Witness ==
  /\ Succeeded /\ ~DstUnchanged /\ Len(eng.calls) > 1
  /\ {"FailUnlessWriteable", "can_cast_scalar_to", "PyArray_malloc",
      "PyArray_CastRawArrays", "stransfer", "PyArray_free"} \subseteq Logged

\* C13: when the normalizer or the transfer-function constructor fails, the
\* engine returns -1 at once: the callback is never invoked, no destination
\* byte is written, and the call returns -1.
C13_SetupFailureWritesNothing ==
  err \in {"IterError", "TransferError"} =>
     /\ pc \in {"fail", "done"}
     /\ eng.variant # "none" /\ eng.calls = <<>>
     /\ "stransfer" \notin Logged
     /\ log[Len(log)] \in {"PrepareRawArrayIter", "GetDTypeTransferFunction",
                           "PyArray_free"}
     /\ DstUnchanged
     /\ pc = "done" => ret = -1

\* The masked engine's constructor failed on a destination of several items
\* and the call has returned.
C13_Witness ==
  /\ pc = "done" /\ ret = -1 /\ err = "TransferError"
  /\ eng.variant = "masked" /\ Cardinality(Coords) > 1 /\ MaskAllTrue

\* The number of innermost runs of the engine's plan.
OuterRuns == Product(Tail(eng.shape_it))

\* C14: an error that the callback raises part way through a loop under
\* guarded execution does not stop the loop: while runs remain the loop
\* goes on, the callback has been invoked for every run when the loop is
\* left, and -1 is returned only then.
C14_LoopRunsOnAfterError ==
  err = "CallbackError" =>
     /\ eng.needs_api /\ gil
     /\ pc \in {"loop", "end_threads", "fail", "done"}
     /\ IF pc = "loop"
        THEN Len(eng.calls) < OuterRuns /\ ret = NotReturned
        ELSE Len(eng.calls) = OuterRuns
     /\ pc = "done" => ret = -1

\* The callback raised in the first run, before it wrote an item, and the
\* second run was made nevertheless: its items hold the scalar when the call
\* has returned -1.
C14_Witness ==
  /\ pc = "done" /\ ret = -1 /\ err = "CallbackError"
  /\ dst.ndim = 2 /\ Len(eng.calls) = MaxExtent
  /\ \E c1, c2 \in Coords :
        /\ c1[1] = 0 /\ c2[1] = 1
        /\ DstItem(mem, c1) = DstItem(in.mem, c1)
        /\ DstItem(mem, c2) = Scalar /\ DstItem(in.mem, c2) # Scalar

\* Step s was taken, and before any step t.
Before(s, t) ==
  /\ s \in Logged
  /\ \A i, j \in 1..Len(log) : (log[i] = s /\ log[j] = t) => i < j

\* C15: the lock is held while the normalizer and the transfer-function
\* constructor are called; the element count is taken and the lock released
\* only after the transfer function was obtained; and when the normalizer
\* or the constructor fails the engine returns with the lock never released.
C15_LockHeldDuringSetup ==
  /\ pc \in {"prepare", "get_transfer", "begin_threads"} =>
       gil /\ "PyEval_SaveThread" \notin Logged
  /\ pc = "begin_threads" => log[Len(log)] = "GetDTypeTransferFunction"
  /\ "PyEval_SaveThread" \in Logged =>
       /\ Before("PrepareRawArrayIter", "PyEval_SaveThread")
       /\ Before("GetDTypeTransferFunction", "PyEval_SaveThread")
       /\ Count("PyEval_SaveThread") = 1
  /\ ~gil => pc \in {"loop", "end_threads"} /\ eng.save
  /\ err \in {"IterError", "TransferError"} =>
       gil /\ Logged \cap {"PyEval_SaveThread", "PyEval_RestoreThread"} = {}

\* The constructor failed in a call whose loop would have run without the
\* lock, and the call has returned with the lock held throughout.
C15_Witness ==
  /\ pc = "done" /\ err = "TransferError" /\ gil
  /\ ~NeedsApi(in.src_dtype, dst.descr)
  /\ Cardinality(Coords) > ThreadsThreshold
  /\ "PyEval_SaveThread" \notin Logged

\* A mask is given whose shape cannot be broadcast to the destination's.
MaskMismatch ==
  /\ ~wheremask.null
  /\ ~broadcast_strides(dst.ndim, dst.dims, wheremask.ndim, wheremask.dims,
                        wheremask.strides).ok

\* C16: in a call with a mask that cannot be broadcast to the destination
\* no engine is ever entered: no normalizer, transfer function or callback
\* step is taken and the destination keeps its bytes; once broadcast_strides
\* has failed the call is on its way out with -1, freeing a heap staging
\* buffer that was made before.
C16_BroadcastFailureSkipsEngine ==
  MaskMismatch =>
     /\ eng = NoEngine /\ DstUnchanged /\ gil
     /\ Logged \cap Phases[4] \subseteq {"broadcast_strides"}
     /\ "broadcast_strides" \in Logged =>
           /\ pc \in {"fail", "done"} /\ err = "ValueError"
           /\ Count("broadcast_strides") = 1
     /\ pc = "done" => ret = -1 /\ heap # "live"

\* The call returned -1 for a mask that cannot be broadcast, after it had
\* staged the scalar in a heap buffer, which it freed.
C16_Witness ==
  /\ MaskMismatch /\ pc = "done" /\ ret = -1 /\ err = "ValueError"
  /\ log[Len(log)] = "PyArray_free"
  /\ Before("PyArray_CastRawArrays", "broadcast_strides")
  /\ Read(mem, Ptr("heap", 0), elsize(dst.descr)) = Scalar

\* The staging conversion was made and an engine entered after it.
StagedEngine ==
  eng.variant # "none" /\ "PyArray_CastRawArrays" \in Logged

\* C17: whenever staging happened, the scalar source handed to the engine
\* is the staging buffer, its type is the destination's type, and its
\* address is aligned for the destination's type, whatever the element
\* size and alignment, in the static buffer and in the heap buffer alike.
C17_StagedSourceAligned ==
  StagedEngine =>
     /\ eng.src_data = tmp_src_data
     /\ eng.src_data.reg = IF FitsScalarBuffer THEN "stack" ELSE "heap"
     /\ eng.src_dtype = dst.descr
     /\ Addr(eng.src_data) % alignment(dst.descr) = 0

\* C18: when staging is started, the static buffer is used exactly when the
\* destination's element size is at most the size of four npy_longlong, and
\* then nothing is allocated; otherwise PyArray_malloc is called exactly
\* once, for exactly one destination element; and when the allocation fails
\* the call fails with no conversion made and no destination byte written.
C18_BufferChoice ==
  /\ StagingStarted =>
       IF elsize(dst.descr) <= ScalarBufferLen * SizeofLongLong
       THEN /\ "PyArray_malloc" \notin Logged
            /\ heap = "none" /\ allocated_src_data = 0 /\ freed = <<>>
            /\ tmp_src_data = Ptr("stack", 0)
       ELSE /\ Count("PyArray_malloc") = 1
            /\ err # "MemoryError" =>
                 /\ heap # "none" /\ allocated_src_data = 1
                 /\ tmp_src_data = Ptr("heap", 0)
                 /\ Len(mem.heap) = elsize(dst.descr)
  /\ ~StagingStarted => heap = "none" /\ mem.heap = <<>>
  /\ err = "MemoryError" =>
       /\ pc \in {"fail", "done"} /\ log[Len(log)] = "PyArray_malloc"
       /\ heap = "none" /\ allocated_src_data = 0 /\ freed = <<>>
       /\ mem = in.mem /\ eng = NoEngine
       /\ pc = "done" => ret = -1

\* A destination whose items are exactly as large as the static buffer was
\* assigned through it: the buffer holds the converted scalar, nothing was
\* allocated.
C18_Witness ==
  /\ Succeeded /\ elsize(dst.descr) = ScalarBufferLen * SizeofLongLong
  /\ "PyArray_CastRawArrays" \in Logged
  /\ mem.stack = Scalar /\ heap = "none" /\ ~DstUnchanged

\* The plan the normalizer made for the engine that was entered.
LoopPlan ==
  IF eng.variant = "plain"
  THEN PyArray_PrepareOneRawArrayIter(dst.ndim, dst.dims, dst.data.off,
                                      dst.strides)
  ELSE PyArray_PrepareTwoRawArrayIter(dst.ndim, dst.dims, dst.data.off,
                                      dst.strides, wheremask.data.off,
                                      eng.wheremask_strides)

\* The coordinate tuples of the plan's dimensions but the innermost.
OuterCoords ==
  {c \in [1..eng.ndim -> 0..MaxExtent] :
     c[1] = 0 /\ \A i \in 2..eng.ndim : c[i] < eng.shape_it[i]}

\* The base plus the sum of coordinate times stride over those dimensions.
RunBase(base, strides, c) ==
  base + SumTo([i \in 1..eng.ndim |-> c[i] * strides[i]], eng.ndim)

\* The callbacks made so far were made each for its own coordinate tuple,
\* with the count shape_it[0] and the base pointers of that tuple.
CallbackPerRun ==
  /\ eng.ndim >= 1 /\ eng.shape_it = LoopPlan.shape
  /\ \A k \in 1..Len(eng.calls) :
       LET call == eng.calls[k]
       IN  /\ call.coord \in OuterCoords
           /\ call.count = eng.shape_it[1]
           /\ call.dst = RunBase(LoopPlan.dataA, LoopPlan.stridesA, call.coord)
           /\ eng.variant = "masked" =>
                call.mask = RunBase(LoopPlan.dataB, LoopPlan.stridesB, call.coord)
           /\ \A j \in 1..(k - 1) : eng.calls[j].coord # call.coord
  /\ Count("stransfer") = Len(eng.calls)

\* The loop was entered: the transfer function was obtained and the
\* iteration started.
LoopEntered ==
  /\ eng.variant # "none" /\ "GetDTypeTransferFunction" \in Logged
  /\ err # "TransferError" /\ pc # "begin_threads"

\* While the loop runs fewer callbacks were made than there are coordinate
\* tuples of the normalized dimensions but the innermost; when it has ended,
\* one for each tuple, each with its count and base pointers.
CallbacksCounted ==
  LoopEntered =>
     /\ CallbackPerRun
     /\ Cardinality(OuterCoords) = OuterRuns
     /\ IF pc = "loop"
        THEN Len(eng.calls) < OuterRuns
        ELSE Len(eng.calls) = OuterRuns

\* A step of the loop is one pass: one more callback, and the loop goes on
\* or is left for the engine's exit.
LoopPass ==
  pc = "loop" =>
     /\ Len(eng'.calls) = Len(eng.calls) + 1
     /\ pc' \in {"loop", "end_threads"}
     /\ eng'.shape_it = eng.shape_it

\* C19: in both engines the loop ends, whatever the normalized shape: every
\* pass adds one callback to fewer than there are coordinate tuples of the
\* normalized dimensions but the innermost, so the passes are bounded; and
\* when the loop has ended the callback was invoked exactly once for each
\* tuple (their extents' product; once when there is one dimension, a run
\* of no items included), each time with the count shape_it[0] and the
\* destination and mask pointers at base plus coordinate times stride.
C19_LoopTerminates == []CallbacksCounted /\ [][LoopPass]_vars

\* The masked engine has left a loop of several runs, the second at another
\* destination and mask address than the first.
C19_Witness ==
  /\ pc = "end_threads" /\ eng.variant = "masked" /\ eng.ndim = 2
  /\ Len(eng.calls) = MaxExtent
  /\ eng.calls[1].dst # eng.calls[2].dst
  /\ eng.calls[1].mask # eng.calls[2].mask

\* C20: on every path the caller's scalar bytes and the mask's bytes stay as
\* they were at entry; besides the destination only the staging buffer is
\* written: the static one once the conversion into it was made, the heap
\* one that this call allocated; and the only pointer passed to
\* PyArray_free is that heap buffer, never the caller's scalar pointer.
C20_FrameOfCall ==
  /\ mem.caller = in.mem.caller
  /\ mem.mask = in.mem.mask
  /\ mem.stack # in.mem.stack =>
       /\ "PyArray_CastRawArrays" \in Logged /\ FitsScalarBuffer
       /\ mem.stack = [i \in 1..SizeofScalarBuffer |->
                         IF i <= elsize(dst.descr) THEN Scalar[i] ELSE Uninit]
  /\ mem.heap # in.mem.heap =>
       /\ "PyArray_malloc" \in Logged /\ heap # "none"
       /\ Len(mem.heap) = elsize(dst.descr)
       /\ mem.heap \in {Scalar, [i \in 1..elsize(dst.descr) |-> Uninit]}
  /\ \A i \in 1..Len(freed) :
       /\ freed[i] # in.src_data /\ freed[i].reg = "heap"
       /\ freed[i] = tmp_src_data /\ "PyArray_malloc" \in Logged
  /\ heap # "corrupt"

\* A masked call that staged the scalar on the heap returned 0: the scalar
\* and the mask are as at entry, the heap buffer is the one pointer freed.
C20_Witness ==
  /\ Succeeded /\ MaskFits /\ ~MaskAllFalse /\ ~DstUnchanged
  /\ freed = <<Ptr("heap", 0)>> /\ mem.heap = Scalar
  /\ mem.caller = in.mem.caller /\ mem.mask = in.mem.mask

====
